---- MODULE Spec2Model ----
(***************************************************************************)
(* Model of src/index.ts: the MyMCP agent's Request Forwarder              *)
(* (makeApiCall) and its eight tool handlers.                              *)
(*                                                                         *)
(* Texts are TLA+ strings handled character by character.  A JavaScript    *)
(* object is the sequence of its own <<key, value>> properties in          *)
(* property order.  An optional value is <<>> (undefined) or <<v>>.        *)
(***************************************************************************)
EXTENDS Integers, Sequences, FiniteSets, TLC

\* ------------------------------------------------------------------ texts

Absent == <<>>

Some(v) == <<v>>

\* `x = d` of a destructuring default, `.default(d)` of a zod schema.
WithDefault(x, d) == IF x = Absent THEN d ELSE x[1]

CharAt(s, i) == SubSeq(s, i, i)

\* String.prototype.startsWith
StartsWith(s, p) == Len(s) >= Len(p) /\ SubSeq(s, 1, Len(p)) = p

\* String.prototype.includes
Includes(s, p) == \E i \in 1..(Len(s) - Len(p) + 1) : SubSeq(s, i, i + Len(p) - 1) = p

\* The stand-in for an unpaired UTF-16 surrogate (U+D800), a code unit a JSON
\* string argument can carry ("\ud800") and a TLA+ string cannot.
Unpaired == "^"

Digits == {"0", "1", "2", "3", "4", "5", "6", "7", "8", "9"}

IsDigits(s) == Len(s) > 0 /\ \A i \in 1..Len(s) : CharAt(s, i) \in Digits

DigitValue(c) == CHOOSE d \in 0..9 : ToString(d) = c

RECURSIVE NatOf(_)
NatOf(s) == IF s = "" THEN 0 ELSE 10 * NatOf(SubSeq(s, 1, Len(s) - 1)) + DigitValue(CharAt(s, Len(s)))

\* -------------------------------------------------------------- encodings

\* The UTF-8 percent-encoding of the characters of the model's alphabet that
\* neither encoder leaves alone; every other character is a letter or a digit.
PercentCode(c) ==
    CASE c = " " -> "%20"
      [] c = "," -> "%2C"
      [] c = "/" -> "%2F"
      [] c = "&" -> "%26"
      [] c = "=" -> "%3D"
      [] c = "+" -> "%2B"
      [] c = "?" -> "%3F"
      [] OTHER   -> c

\* encodeURIComponent throws URIError("URI malformed") on an unpaired surrogate.
UriMalformed(s) == \E i \in 1..Len(s) : CharAt(s, i) = Unpaired

RECURSIVE encodeURIComponent(_)
encodeURIComponent(s) ==
    IF s = "" THEN ""
    ELSE PercentCode(Head(s)) \o encodeURIComponent(Tail(s))

\* application/x-www-form-urlencoded serialisation of one name or value: a
\* space becomes "+", and an unpaired surrogate was replaced by U+FFFD when
\* the value became a USVString.
FormEncodeChar(c) ==
    CASE c = " "      -> "+"
      [] c = Unpaired -> "%EF%BF%BD"
      [] OTHER        -> PercentCode(c)

RECURSIVE FormEncode(_)
FormEncode(s) ==
    IF s = "" THEN ""
    ELSE FormEncodeChar(Head(s)) \o FormEncode(Tail(s))

\* URLSearchParams.prototype.toString over the list of <<name, value>> pairs.
RECURSIVE URLSearchParamsToString(_)
URLSearchParamsToString(params) ==
    IF params = <<>> THEN ""
    ELSE FormEncode(params[1][1]) \o "=" \o FormEncode(params[1][2])
         \o (IF Len(params) > 1 THEN "&" ELSE "")
         \o URLSearchParamsToString(Tail(params))

\* ------------------------------------------------------------------- JSON
\* The JSON texts of the model: a non-negative integer, or an object whose
\* members are "name": integer, with names free of quotes and escapes.  A JSON
\* value is [t |-> "num" or "obj", n |-> the number, m |-> the members].

Whitespace == {" ", "\n", "\t", "\r"}

JsonNum(k) == [t |-> "num", n |-> k, m |-> <<>>]

JsonObj(members) == [t |-> "obj", n |-> 0, m |-> members]

JsonFail == [ok |-> FALSE, val |-> JsonNum(0), next |-> 0]

RECURSIVE SkipWs(_, _)
SkipWs(s, i) ==
    IF i <= Len(s) /\ CharAt(s, i) \in Whitespace THEN SkipWs(s, i + 1) ELSE i

RECURSIVE DigitsEnd(_, _)
DigitsEnd(s, i) ==
    IF i <= Len(s) /\ CharAt(s, i) \in Digits THEN DigitsEnd(s, i + 1) ELSE i

\* number = 0 | [1-9][0-9]*
ScanNumber(s, i) ==
    LET e == IF i <= Len(s) /\ CharAt(s, i) = "0" THEN i + 1 ELSE DigitsEnd(s, i)
    IN  IF e = i THEN JsonFail
        ELSE [ok |-> TRUE, val |-> JsonNum(NatOf(SubSeq(s, i, e - 1))), next |-> e]

RECURSIVE QuoteAt(_, _)
QuoteAt(s, i) ==
    IF i > Len(s) \/ CharAt(s, i) = "\"" THEN i ELSE QuoteAt(s, i + 1)

\* string = '"' characters '"'; val.m carries the one name read.
ScanString(s, i) ==
    IF i > Len(s) \/ CharAt(s, i) # "\"" THEN JsonFail
    ELSE LET j == QuoteAt(s, i + 1)
         IN  IF j > Len(s) THEN JsonFail
             ELSE [ok |-> TRUE, val |-> JsonObj(<<SubSeq(s, i + 1, j - 1)>>), next |-> j + 1]

RECURSIVE ScanMembers(_, _, _)
ScanMembers(s, i, acc) ==
    LET key   == ScanString(s, i)
        colon == SkipWs(s, key.next)
        num   == ScanNumber(s, SkipWs(s, colon + 1))
        after == SkipWs(s, num.next)
        got   == Append(acc, <<key.val.m[1], num.val.n>>)
    IN  IF ~key.ok \/ colon > Len(s) \/ CharAt(s, colon) # ":" THEN JsonFail
        ELSE IF ~num.ok \/ after > Len(s) THEN JsonFail
        ELSE IF CharAt(s, after) = "}"
             THEN [ok |-> TRUE, val |-> JsonObj(got), next |-> after + 1]
        ELSE IF CharAt(s, after) = ","
             THEN ScanMembers(s, SkipWs(s, after + 1), got)
        ELSE JsonFail

ScanValue(s, i) ==
    IF i > Len(s) THEN JsonFail
    ELSE IF CharAt(s, i) = "{"
         THEN LET j == SkipWs(s, i + 1)
              IN  IF j <= Len(s) /\ CharAt(s, j) = "}"
                  THEN [ok |-> TRUE, val |-> JsonObj(<<>>), next |-> j + 1]
                  ELSE ScanMembers(s, j, <<>>)
    ELSE ScanNumber(s, i)

\* The document as written: its members in the order of the text.
JsonScan(s) ==
    LET v == ScanValue(s, SkipWs(s, 1))
    IN  IF v.ok /\ SkipWs(s, v.next) = Len(s) + 1 THEN v ELSE JsonFail

\* An array index: a canonical numeric string ("0", "7", "12", not "01").
IsArrayIndex(k) == IsDigits(k) /\ (Len(k) = 1 \/ CharAt(k, 1) # "0")

RECURSIVE DistinctKeys(_, _)
DistinctKeys(members, seen) ==
    IF members = <<>> THEN <<>>
    ELSE LET k == members[1][1]
         IN  IF k \in seen THEN DistinctKeys(Tail(members), seen)
             ELSE <<k>> \o DistinctKeys(Tail(members), seen \cup {k})

LastValue(members, k) ==
    LET i == CHOOSE x \in 1..Len(members) :
                 /\ members[x][1] = k
                 /\ \A y \in (x + 1)..Len(members) : members[y][1] # k
    IN  members[i][2]

RECURSIVE Ascending(_)
Ascending(S) ==
    IF S = {} THEN <<>>
    ELSE LET least == CHOOSE k \in S : \A o \in S : NatOf(k) <= NatOf(o)
         IN  <<least>> \o Ascending(S \ {least})

NotArrayIndex(k) == ~IsArrayIndex(k)

\* OrdinaryOwnPropertyKeys: array indices ascending, then the other names in
\* the order they were first created.
OwnPropertyKeys(members) ==
    LET keys == DistinctKeys(members, {})
    IN  Ascending({k \in {keys[i] : i \in 1..Len(keys)} : IsArrayIndex(k)})
        \o SelectSeq(keys, NotArrayIndex)

\* The object JSON.parse builds: one property per name, a repeated name
\* keeping its place and taking the last value.
OwnProperties(members) ==
    LET keys == OwnPropertyKeys(members)
    IN  [i \in 1..Len(keys) |-> <<keys[i], LastValue(members, keys[i])>>]

\* JSON.parse, and Response.json() over a body that was read.
JSONparse(s) ==
    LET v == JsonScan(s)
    IN  IF ~v.ok THEN v
        ELSE IF v.val.t = "obj"
             THEN [ok |-> TRUE, val |-> JsonObj(OwnProperties(v.val.m)), next |-> v.next]
        ELSE v

RECURSIVE Spaces(_)
Spaces(n) == IF n = 0 THEN "" ELSE " " \o Spaces(n - 1)

\* The members of an object, each on a line of its own behind `indent`
\* spaces, or packed when indent is 0.
RECURSIVE StringifyMembers(_, _)
StringifyMembers(members, indent) ==
    IF members = <<>> THEN ""
    ELSE (IF indent > 0 THEN "\n" \o Spaces(indent) ELSE "")
         \o "\"" \o members[1][1] \o "\":" \o (IF indent > 0 THEN " " ELSE "")
         \o ToString(members[1][2])
         \o (IF Len(members) > 1 THEN "," ELSE IF indent > 0 THEN "\n" ELSE "")
         \o StringifyMembers(Tail(members), indent)

\* JSON.stringify(value, null, indent)
JSONstringify(value, indent) ==
    IF value.t = "num" THEN ToString(value.n)
    ELSE IF value.m = <<>> THEN "{}"
    ELSE "{" \o StringifyMembers(value.m, indent) \o "}"

\* ---------------------------------------------------------------- numbers
\* A number is the fraction [n |-> numerator, d |-> denominator > 0] in lowest
\* terms.  The model divides only by powers of two, where the double a / b is
\* the exact quotient and its decimal expansion is finite.

RECURSIVE Gcd(_, _)
Gcd(x, y) == IF y = 0 THEN x ELSE Gcd(y, x % y)

Abs(x) == IF x < 0 THEN -x ELSE x

Fraction(n, d) ==
    LET g == Gcd(Abs(n), Abs(d))
    IN  [n |-> (IF d < 0 THEN -n ELSE n) \div g, d |-> Abs(d) \div g]

RECURSIVE FractionDigits(_, _)
FractionDigits(r, d) ==
    IF r = 0 THEN ""
    ELSE ToString((10 * r) \div d) \o FractionDigits((10 * r) % d, d)

\* String(number), Number.prototype.toString
NumberToString(x) ==
    LET whole == Abs(x.n) \div x.d
        rest  == Abs(x.n) % x.d
    IN  (IF x.n < 0 THEN "-" ELSE "") \o ToString(whole)
        \o (IF rest = 0 THEN "" ELSE "." \o FractionDigits(rest, x.d))

\* Boolean.prototype.toString
BooleanToString(b) == IF b THEN "true" ELSE "false"

\* ---------------------------------------------------------------- headers

UpperCase == "ABCDEFGHIJKLMNOPQRSTUVWXYZ"

LowerCase == "abcdefghijklmnopqrstuvwxyz"

LowerChar(c) ==
    IF \E i \in 1..Len(UpperCase) : CharAt(UpperCase, i) = c
    THEN CharAt(LowerCase, CHOOSE i \in 1..Len(UpperCase) : CharAt(UpperCase, i) = c)
    ELSE c

RECURSIVE ToLower(_)
ToLower(s) == IF s = "" THEN "" ELSE LowerChar(Head(s)) \o ToLower(Tail(s))

HasKey(obj, key) == \E i \in 1..Len(obj) : obj[i][1] = key

\* headers?.[key]: undefined when headers is undefined or has no such own
\* property; property names are case-sensitive.
HeaderGet(headers, key) ==
    IF headers = Absent \/ ~HasKey(headers[1], key) THEN Absent
    ELSE Some(headers[1][CHOOSE i \in 1..Len(headers[1]) : headers[1][i][1] = key][2])

\* !x for an optional string: undefined and "" are falsy.
Falsy(x) == x = Absent \/ x[1] = ""

\* { ...base, ...extra }: a name already present keeps its place and takes the
\* new value, a new name is added at the end.
RECURSIVE ObjectSpread(_, _)
ObjectSpread(base, extra) ==
    IF extra = <<>> THEN base
    ELSE LET k == extra[1][1]
             merged == IF HasKey(base, k)
                       THEN [i \in 1..Len(base) |-> IF base[i][1] = k THEN extra[1] ELSE base[i]]
                       ELSE Append(base, extra[1])
         IN  ObjectSpread(merged, Tail(extra))

\* The Headers that fetch builds from the init record: names are matched
\* without regard to case, and the values given under one name are combined,
\* in order, with ", ".
RECURSIVE CombinedValue(_, _)
CombinedValue(obj, name) ==
    IF obj = <<>> THEN Absent
    ELSE LET rest == CombinedValue(Tail(obj), name)
         IN  IF ToLower(obj[1][1]) # name THEN rest
             ELSE IF rest = Absent THEN Some(obj[1][2])
             ELSE Some(obj[1][2] \o ", " \o rest[1])

\* ------------------------------------------------------ Request Forwarder

\* catch (error) { throw new Error(`API call error: ${error.message}`) }
ApiCallError(message) == "API call error: " \o message

MissingHeaders == "Missing required headers: x-magento-domain and authorization"

\* Ensure bearer token format
BearerToken(bearerToken) ==
    IF StartsWith(bearerToken, "Bearer ") THEN bearerToken ELSE "Bearer " \o bearerToken

RequestHeaders(token, headers) ==
    ObjectSpread(<< <<"Authorization", token>>,
                    <<"Content-Type", "application/json">>,
                    <<"Accept", "application/json">> >>,
                 IF headers = Absent THEN <<>> ELSE headers[1])

\* if (data && method !== 'GET') requestOptions.body = JSON.stringify(data)
RequestBody(data, method) ==
    IF data # Absent /\ method # "GET" THEN Some(JSONstringify(data[1], 0)) ELSE Absent

\* MakeApiCall with the guard reduced to `if (!magentoUrl)`.
MakeApiCallDomainOnly(endpoint, method, data, headers) ==
    LET magentoUrl  == HeaderGet(headers, "x-magento-domain")
        bearerToken == WithDefault(HeaderGet(headers, "authorization"), "")
    IN  IF Falsy(magentoUrl)
        THEN [threw |-> TRUE, message |-> ApiCallError(MissingHeaders), request |-> Absent]
        ELSE [threw |-> FALSE, message |-> "",
              request |-> Some([url     |-> magentoUrl[1] \o "/rest/V1/" \o endpoint,
                                method  |-> method,
                                headers |-> RequestHeaders(BearerToken(bearerToken), headers),
                                body    |-> RequestBody(data, method)])]

\* makeApiCall up to its `await fetch(apiUrl, requestOptions)`: the error it
\* throws, or the request it hands to fetch.
MakeApiCall(endpoint, method, data, headers) ==
    LET magentoUrl  == HeaderGet(headers, "x-magento-domain")
        bearerToken == HeaderGet(headers, "authorization")
    IN  IF Falsy(magentoUrl) \/ Falsy(bearerToken)
        THEN [threw |-> TRUE, message |-> ApiCallError(MissingHeaders), request |-> Absent]
        ELSE [threw |-> FALSE, message |-> "",
              request |-> Some([url     |-> magentoUrl[1] \o "/rest/V1/" \o endpoint,
                                method  |-> method,
                                headers |-> RequestHeaders(BearerToken(bearerToken[1]), headers),
                                body    |-> RequestBody(data, method)])]

\* The Authorization header the request carries on the wire.
SentAuthorization(request) == CombinedValue(request.headers, "authorization")

\* ResponseOk taking every status below 500 for a success.
ResponseOkBelow500(status) == status \in 200..499

\* response.ok
ResponseOk(status) == status \in 200..299

ApiCallFailed(status, statusText, errorText) ==
    "API call failed: " \o ToString(status) \o " " \o statusText \o " - " \o errorText

\* ---------------------------------------------------------- tool handlers

RemoteTools == {"get_product_by_sku", "get_products_by_ids", "search_products",
                "get_product_categories", "get_bestsellers", "get_revenue"}

LocalTools == {"add", "calculate"}

DefaultPageSize == 10

DefaultCurrentPage == 1

DefaultLimit == 10

Indent == 2

\* return { content: [{ type: "text", text }] }
TextResponse(text) == [kind |-> "return", content |-> << [type |-> "text", text |-> text] >>]

\* HandlerReturn without the indentation: JSON.stringify(result).
HandlerReturnPacked(result) == TextResponse(JSONstringify(result, 0))

\* return { content: [{ type: "text", text: JSON.stringify(result, null, 2) }] }
HandlerReturn(result) == TextResponse(JSONstringify(result, Indent))

\* HandlerCatch letting the error escape: catch (error) { throw error }.
HandlerRethrow(message) == [kind |-> "throw", content |-> <<>>]

\* catch (error) { return { content: [{ type: "text", text: `Error: ${error.message}` }] } }
HandlerCatch(message) == TextResponse("Error: " \o message)

\* `mcpdata/.../${encodeURIComponent(value)}`
EncodedPath(prefix, value) ==
    IF UriMalformed(value) THEN [threw |-> TRUE, message |-> "URI malformed", path |-> ""]
    ELSE [threw |-> FALSE, message |-> "", path |-> prefix \o encodeURIComponent(value)]

QueryPath(prefix, params) ==
    [threw |-> FALSE, message |-> "", path |-> prefix \o URLSearchParamsToString(params)]

\* AppendStatus without its test: params.append('status', status ?? '').
AppendStatusAlways(params, status) == Append(params, <<"status", WithDefault(status, "")>>)

\* if (status) params.append('status', status)
AppendStatus(params, status) ==
    IF Falsy(status) THEN params ELSE Append(params, <<"status", status[1]>>)

IntegerToString(k) == NumberToString(Fraction(k, 1))

SearchParams(args) ==
    << <<"query", WithDefault(args.query, "")>>,
       <<"pageSize", IntegerToString(WithDefault(args.page_size, DefaultPageSize))>>,
       <<"currentPage", IntegerToString(WithDefault(args.current_page, DefaultCurrentPage))>> >>

BestsellersParams(args) ==
    AppendStatus(<< <<"dateRange", WithDefault(args.date_range, "today")>>,
                    <<"limit", IntegerToString(WithDefault(args.limit, DefaultLimit))>> >>,
                 args.status)

RevenueParams(args) ==
    AppendStatus(<< <<"dateRange", WithDefault(args.date_range, "today")>>,
                    <<"includeTax", BooleanToString(WithDefault(args.include_tax, TRUE))>> >>,
                 args.status)

\* The endpoint path a remote-backed handler computes before it calls
\* makeApiCall, or the error the computation throws inside the handler's try.
Endpoint(tool, args) ==
    CASE tool = "get_product_by_sku"     -> EncodedPath("mcpdata/product/sku/", args.sku)
      [] tool = "get_products_by_ids"    -> EncodedPath("mcpdata/products/ids/", args.ids)
      [] tool = "search_products"        -> QueryPath("mcpdata/products/search?", SearchParams(args))
      [] tool = "get_product_categories" -> EncodedPath("mcpdata/product/categories/", args.sku)
      [] tool = "get_bestsellers"        -> QueryPath("mcpdata/bestsellers?", BestsellersParams(args))
      [] tool = "get_revenue"            -> QueryPath("mcpdata/revenue?", RevenueParams(args))

Add(a, b) == TextResponse(NumberToString(Fraction(a + b, 1)))

DivideByZero == "Error: Cannot divide by zero"

\* Calculate without the test of b: a / 0 is NaN or an infinity.
CalculateUnguarded(operation, a, b) ==
    CASE operation = "add"      -> TextResponse(NumberToString(Fraction(a + b, 1)))
      [] operation = "subtract" -> TextResponse(NumberToString(Fraction(a - b, 1)))
      [] operation = "multiply" -> TextResponse(NumberToString(Fraction(a * b, 1)))
      [] operation = "divide"   -> IF b = 0
                                   THEN TextResponse(IF a = 0 THEN "NaN"
                                                     ELSE IF a > 0 THEN "Infinity" ELSE "-Infinity")
                                   ELSE TextResponse(NumberToString(Fraction(a, b)))

Calculate(operation, a, b) ==
    CASE operation = "add"      -> TextResponse(NumberToString(Fraction(a + b, 1)))
      [] operation = "subtract" -> TextResponse(NumberToString(Fraction(a - b, 1)))
      [] operation = "multiply" -> TextResponse(NumberToString(Fraction(a * b, 1)))
      [] operation = "divide"   -> IF b = 0 THEN TextResponse(DivideByZero)
                                   ELSE TextResponse(NumberToString(Fraction(a, b)))

NoRequest(response) == [done |-> TRUE, response |-> Some(response), request |-> Absent]

\* RemoteHandler forwarding its arguments as the body of a POST.
RemoteHandlerPost(tool, args, headers) ==
    LET endpoint == Endpoint(tool, args)
        call     == MakeApiCall(endpoint.path, "POST", Some(JsonNum(1)), headers)
    IN  IF endpoint.threw THEN NoRequest(HandlerCatch(endpoint.message))
        ELSE IF call.threw THEN NoRequest(HandlerCatch(call.message))
        ELSE [done |-> FALSE, response |-> Absent, request |-> call.request]

\* A remote-backed handler up to the first await that suspends it: the
\* response it returns at once, or the request it waits on.
RemoteHandler(tool, args, headers) ==
    LET endpoint == Endpoint(tool, args)
        call     == MakeApiCall(endpoint.path, "GET", Absent, headers)
    IN  IF endpoint.threw THEN NoRequest(HandlerCatch(endpoint.message))
        ELSE IF call.threw THEN NoRequest(HandlerCatch(call.message))
        ELSE [done |-> FALSE, response |-> Absent, request |-> call.request]

Handler(tool, args, headers) ==
    CASE tool = "add"       -> NoRequest(Add(args.a, args.b))
      [] tool = "calculate" -> NoRequest(Calculate(args.operation, args.a, args.b))
      [] OTHER              -> RemoteHandler(tool, args, headers)

\* makeApiCall after `await fetch(...)` rejected, inside the handler's try.
OnFetchRejected(message) == HandlerCatch(ApiCallError(message))

\* makeApiCall after the body of a reply was read (body = <<text>>) or the
\* read failed (body = <<>>, with the stream's error message), inside the
\* handler's try; syntaxError is the message of the engine's SyntaxError.
OnBody(status, statusText, body, message, syntaxError) ==
    IF body = Absent THEN HandlerCatch(ApiCallError(message))
    ELSE IF ~ResponseOk(status)
         THEN HandlerCatch(ApiCallError(ApiCallFailed(status, statusText, body[1])))
    ELSE IF ~JSONparse(body[1]).ok THEN HandlerCatch(ApiCallError(syntaxError))
    ELSE HandlerReturn(JSONparse(body[1]).val)

\* ------------------------------------------------------------ the inputs

MaxNum == 2

MaxCalls == 2

Numbers == -MaxNum..MaxNum

RECURSIVE IsPowerOfTwo(_)
IsPowerOfTwo(k) == k = 1 \/ (k > 1 /\ k % 2 = 0 /\ IsPowerOfTwo(k \div 2))

\* calculate's arguments: every operation over Numbers, the divisors being 0
\* and the powers of two.
CalculateArgs ==
    {x \in [operation : {"add", "subtract", "multiply", "divide"}, a : Numbers, b : Numbers] :
        x.operation = "divide" => (x.b = 0 \/ IsPowerOfTwo(Abs(x.b)))}

Skus == {"A1", "a b/c", "x" \o Unpaired}

Statuses == {Absent, Some(""), Some("complete")}

DateRanges == {Absent, Some("last week")}

ArgsOf(tool) ==
    CASE tool = "get_product_by_sku"     -> [sku : Skus]
      [] tool = "get_products_by_ids"    -> [ids : {"1,2", Unpaired \o ",3"}]
      [] tool = "search_products"        -> [query : {Absent, Some(""), Some("red shoe")},
                                             page_size : {Absent, Some(5)},
                                             current_page : {Absent, Some(2)}]
      [] tool = "get_product_categories" -> [sku : Skus]
      [] tool = "get_bestsellers"        -> [date_range : DateRanges, limit : {Absent, Some(5)},
                                             status : Statuses]
      [] tool = "get_revenue"            -> [date_range : DateRanges, status : Statuses,
                                             include_tax : {Absent, Some(FALSE)}]
      [] tool = "add"                    -> [a : Numbers, b : Numbers]
      [] tool = "calculate"              -> CalculateArgs

Domain == <<"x-magento-domain", "https://shop.test">>

\* The per-call headers: undefined, or an object with some of the two
\* load-bearing names, and once with a caller-supplied "Authorization" too.
HeaderSets ==
    {Absent, Some(<<>>), Some(<<Domain>>), Some(<< <<"authorization", "tok">> >>),
     Some(<<Domain, <<"authorization", "">> >>),
     Some(<< <<"x-magento-domain", "">>, <<"authorization", "tok">> >>),
     Some(<<Domain, <<"authorization", "tok">> >>),
     Some(<<Domain, <<"authorization", "Bearer tok">> >>),
     Some(<<Domain, <<"authorization", "bearer tok">> >>),
     Some(<<Domain, <<"authorization", "tok">>, <<"Authorization", "Basic abc">> >>)}

Inputs ==
    UNION {[tool : {t}, args : ArgsOf(t), headers : HeaderSets] : t \in RemoteTools \cup LocalTools}

Reply(status, statusText, body) ==
    [kind |-> "response", status |-> status, statusText |-> statusText, body |-> body,
     message |-> IF body = Absent THEN "Network connection lost." ELSE ""]

Rejected(message) ==
    [kind |-> "rejected", status |-> 0, statusText |-> "", body |-> Absent, message |-> message]

\* What fetch can resolve with: a status line and a body that is read
\* (<<text>>) or whose read fails (<<>>).
Replies ==
    {Reply(200, "OK", Some("{\"b\":1,\"a\":2}")),
     Reply(200, "OK", Some("{ \"a\" : 1 }")),
     Reply(200, "OK", Some("{\"b\":1,\"10\":3,\"2\":4}")),
     Reply(200, "OK", Some("{\"a\":1,\"b\":2,\"a\":3}")),
     Reply(200, "OK", Some("7")),
     Reply(200, "OK", Some("{\"a\":")),
     Reply(204, "No Content", Some("")),
     Reply(200, "OK", Absent),
     Reply(404, "Not Found", Some("not found")),
     Reply(500, "Internal Server Error", Some("{\"a\":1}")),
     Reply(404, "Not Found", Absent)}

\* What fetch can reject with.
NetworkErrors == {"fetch failed", ""}

\* response.json()'s SyntaxError message is the engine's own.
SyntaxErrors == {"Unexpected end of JSON input", "Unexpected token"}

\* -------------------------------------------------------------- the state
\* One slot per invocation in flight.
VARIABLES
    pc,        \* "idle", "fetching" (await fetch), "reading" (await response.text()/json()), "done"
    input,     \* <<[tool, args, headers]>> of the invocation, <<>> when idle
    sent,      \* the requests the invocation handed to fetch
    reply,     \* <<what fetch settled with>>
    response,  \* <<what the handler returned or threw>>
    hung       \* the upstream call will never settle

vars == <<pc, input, sent, reply, response, hung>>

Slots == DOMAIN pc

InitOver(n) ==
    /\ pc = [i \in 1..n |-> "idle"]
    /\ input = [i \in 1..n |-> Absent]
    /\ sent = [i \in 1..n |-> <<>>]
    /\ reply = [i \in 1..n |-> Absent]
    /\ response = [i \in 1..n |-> Absent]
    /\ hung = [i \in 1..n |-> FALSE]

\* CallHeaders reading a field shared by the invocations in flight, which the
\* lowest-numbered of them has set.
CallHeadersShared(i, in) ==
    IF \E j \in DOMAIN pc : j # i /\ input[j] # Absent /\ input[j][1].tool \in RemoteTools
    THEN input[CHOOSE j \in DOMAIN pc :
                   /\ j # i /\ input[j] # Absent /\ input[j][1].tool \in RemoteTools
                   /\ \A k \in DOMAIN pc :
                          (k # i /\ input[k] # Absent /\ input[k][1].tool \in RemoteTools) => j <= k][1].headers
    ELSE in.headers

\* async ({ ...args }, { headers }) => ...: the headers the handler of
\* invocation i works with are those of its own call.
CallHeaders(i, in) == in.headers

\* The invocation protocol layer calls a tool handler, which runs to its first
\* suspending await or to its return.
Invoke(i, in) ==
    LET h == Handler(in.tool, in.args, CallHeaders(i, in))
    IN  /\ pc[i] = "idle"
        /\ input' = [input EXCEPT ![i] = Some(in)]
        /\ sent' = [sent EXCEPT ![i] = IF h.request = Absent THEN <<>> ELSE <<h.request[1]>>]
        /\ response' = [response EXCEPT ![i] = h.response]
        /\ pc' = [pc EXCEPT ![i] = IF h.done THEN "done" ELSE "fetching"]
        /\ UNCHANGED <<reply, hung>>

\* fetch resolves with a reply: the handler goes on to read its body.
FetchResolve(i, r) ==
    /\ pc[i] = "fetching" /\ ~hung[i]
    /\ reply' = [reply EXCEPT ![i] = Some(r)]
    /\ pc' = [pc EXCEPT ![i] = "reading"]
    /\ UNCHANGED <<input, sent, response, hung>>

\* fetch rejects: makeApiCall rewraps the error and the handler catches it.
FetchReject(i, message) ==
    /\ pc[i] = "fetching" /\ ~hung[i]
    /\ reply' = [reply EXCEPT ![i] = Some(Rejected(message))]
    /\ response' = [response EXCEPT ![i] = Some(OnFetchRejected(message))]
    /\ pc' = [pc EXCEPT ![i] = "done"]
    /\ UNCHANGED <<input, sent, hung>>

\* The body read settles: the handler runs to its return.
BodySettle(i, syntaxError) ==
    /\ pc[i] = "reading" /\ ~hung[i]
    /\ response' = [response EXCEPT ![i] =
           Some(OnBody(reply[i][1].status, reply[i][1].statusText, reply[i][1].body,
                       reply[i][1].message, syntaxError))]
    /\ pc' = [pc EXCEPT ![i] = "done"]
    /\ UNCHANGED <<input, sent, reply, hung>>

\* Hang with a deadline on the call: fetch(apiUrl, { signal: AbortSignal.timeout(ms) }).
HangAborted(i) ==
    /\ pc[i] \in {"fetching", "reading"} /\ ~hung[i]
    /\ hung' = [hung EXCEPT ![i] = TRUE]
    /\ reply' = [reply EXCEPT ![i] = Some(Rejected("The operation was aborted"))]
    /\ response' = [response EXCEPT ![i] = Some(OnFetchRejected("The operation was aborted"))]
    /\ pc' = [pc EXCEPT ![i] = "done"]
    /\ UNCHANGED <<input, sent>>

\* The upstream stops answering; nothing times the call out or cancels it.
Hang(i) ==
    /\ pc[i] \in {"fetching", "reading"} /\ ~hung[i]
    /\ hung' = [hung EXCEPT ![i] = TRUE]
    /\ UNCHANGED <<pc, input, sent, reply, response>>

\* The protocol layer takes the response; the slot is free for the next call.
Collect(i) ==
    /\ pc[i] = "done"
    /\ pc' = [pc EXCEPT ![i] = "idle"]
    /\ input' = [input EXCEPT ![i] = Absent]
    /\ sent' = [sent EXCEPT ![i] = <<>>]
    /\ reply' = [reply EXCEPT ![i] = Absent]
    /\ response' = [response EXCEPT ![i] = Absent]
    /\ UNCHANGED hung

\* One invocation at a time, over every input.
Init == InitOver(1)

Next ==
    \/ \E i \in Slots, in \in Inputs : Invoke(i, in)
    \/ \E i \in Slots, r \in Replies : FetchResolve(i, r)
    \/ \E i \in Slots, m \in NetworkErrors : FetchReject(i, m)
    \/ \E i \in Slots, e \in SyntaxErrors : BodySettle(i, e)
    \/ \E i \in Slots : Hang(i)
    \/ \E i \in Slots : Collect(i)

Spec == Init /\ [][Next]_vars

\* Up to MaxCalls invocations in flight at once, their steps interleaved in
\* any order, over a few inputs and replies.
GoodHeaders == {Some(<<Domain, <<"authorization", "tok">> >>),
                Some(<<Domain, <<"authorization", "Bearer key">> >>)}

ConcInputs ==
    [tool : {"get_product_by_sku"}, args : [sku : {"A1"}], headers : GoodHeaders \cup {Absent}]
    \cup [tool : {"get_bestsellers"},
          args : [date_range : {Absent}, limit : {Absent}, status : {Some("complete")}],
          headers : GoodHeaders]
    \cup [tool : {"add"}, args : [a : {1}, b : {1}], headers : {Absent}]

ConcReplies == {Reply(200, "OK", Some("{\"b\":1,\"a\":2}")), Reply(404, "Not Found", Some("not found"))}

ConcInit == InitOver(MaxCalls)

ConcNext ==
    \/ \E i \in Slots, in \in ConcInputs : Invoke(i, in)
    \/ \E i \in Slots, r \in ConcReplies : FetchResolve(i, r)
    \/ \E i \in Slots : FetchReject(i, "fetch failed")
    \/ \E i \in Slots : BodySettle(i, "Unexpected token")
    \/ \E i \in Slots : Hang(i)
    \/ \E i \in Slots : Collect(i)

ConcSpec == ConcInit /\ [][ConcNext]_vars

\* A step that settles the upstream call of invocation i, told by what it does
\* to the invocation's position: FetchResolve, FetchReject and BodySettle are
\* the steps of ConcNext that move a pending invocation on.
Settle(i) ==
    /\ pc[i] \in {"fetching", "reading"} /\ ~hung[i]
    /\ \E next \in {"reading", "done"} : next # pc[i] /\ pc' = [pc EXCEPT ![i] = next]

\* The event loop resumes a handler whose awaited promise has settled; an
\* upstream call that does not hang settles in the end.
FairSpec == ConcSpec /\ \A i \in 1..MaxCalls : WF_pc(Settle(i))

\* ------------------------------------------------------------- properties

In(i) == input[i][1]

Invoked(i) == input[i] # Absent

Returned(i) == pc[i] = "done"

Remote(i) == Invoked(i) /\ In(i).tool \in RemoteTools

\* The response is a returned value holding exactly one text block.
OneTextBlock(i) ==
    /\ response[i] # Absent
    /\ response[i][1].kind = "return"
    /\ Len(response[i][1].content) = 1
    /\ response[i][1].content[1].type = "text"

Text(i) == response[i][1].content[1].text

HasNonEmpty(h, name) ==
    h # Absent /\ \E k \in 1..Len(h[1]) : h[1][k][1] = name /\ h[1][k][2] # ""

\* The per-call headers lack the domain or the authorization (absent or empty).
LacksHeaders(h) == ~HasNonEmpty(h, "x-magento-domain") \/ ~HasNonEmpty(h, "authorization")

\* The argument a handler percent-encodes into its path holds an unpaired
\* surrogate.
Unencodable(in) ==
    \/ in.tool \in {"get_product_by_sku", "get_product_categories"} /\ Includes(in.args.sku, Unpaired)
    \/ in.tool = "get_products_by_ids" /\ Includes(in.args.ids, Unpaired)

\* C1, as stated: a remote-backed invocation whose headers lack the domain or
\* the authorization returns an error block whose text contains "Missing
\* required headers", and hands nothing to fetch.
C1_AsStated ==
    \A i \in Slots :
        (Remote(i) /\ LacksHeaders(In(i).headers)) =>
            /\ Returned(i) /\ sent[i] = <<>> /\ reply[i] = Absent
            /\ OneTextBlock(i)
            /\ Includes(Text(i), "Missing required headers")

\* C1, amended: such an invocation returns at once a single text block that
\* starts with "Error: " and hands nothing to fetch; the text contains
\* "Missing required headers" unless the sku or ids argument holds an unpaired
\* surrogate, in which case the text is "Error: URI malformed".
C1_MissingHeaders ==
    \A i \in Slots :
        (Remote(i) /\ LacksHeaders(In(i).headers)) =>
            /\ Returned(i) /\ sent[i] = <<>> /\ reply[i] = Absent
            /\ OneTextBlock(i)
            /\ StartsWith(Text(i), "Error: ")
            /\ IF Unencodable(In(i)) THEN Text(i) = "Error: URI malformed"
               ELSE Includes(Text(i), "Missing required headers")

C1_Witness ==
    \E i \in Slots :
        /\ Remote(i) /\ Returned(i)
        /\ HasNonEmpty(In(i).headers, "x-magento-domain")
        /\ ~HasNonEmpty(In(i).headers, "authorization")
        /\ Includes(Text(i), "Missing required headers")

\* A stage of the invocation failed.
Failed(i) ==
    \/ Remote(i) /\ (LacksHeaders(In(i).headers) \/ Unencodable(In(i)))
    \/ /\ reply[i] # Absent
       /\ \/ reply[i][1].kind = "rejected"
          \/ reply[i][1].status < 200
          \/ reply[i][1].status > 299
          \/ reply[i][1].body = Absent
          \/ ~JsonScan(reply[i][1].body[1]).ok
    \/ /\ Invoked(i) /\ In(i).tool = "calculate"
       /\ In(i).args.operation = "divide" /\ In(i).args.b = 0

\* C2: every invocation that completes returns a response holding at least
\* one text block, nothing is ever thrown out of a handler, and the text of a
\* failure starts with "Error: ".
C2_AlwaysTextResponse ==
    \A i \in Slots :
        /\ response[i] # Absent => response[i][1].kind = "return"
        /\ Returned(i) =>
            /\ response[i] # Absent
            /\ Len(response[i][1].content) >= 1
            /\ \E k \in 1..Len(response[i][1].content) : response[i][1].content[k].type = "text"
            /\ Failed(i) => StartsWith(Text(i), "Error: ")

C2_Witness ==
    \E i \in Slots :
        /\ Returned(i) /\ reply[i] # Absent /\ reply[i][1].kind = "rejected"
        /\ Text(i) = "Error: API call error: fetch failed"

\* The authorization value the caller supplied.
CallerCredential(i) ==
    In(i).headers[1][CHOOSE k \in 1..Len(In(i).headers[1]) : In(i).headers[1][k][1] = "authorization"][2]

\* C3: the Authorization header of every outbound request is "Bearer " and
\* the caller's credential when the credential does not start with "Bearer ",
\* and the credential unchanged when it does.
C3_AuthorizationSent ==
    \A i \in Slots :
        sent[i] # <<>> =>
            SentAuthorization(sent[i][1]) =
                Some(IF StartsWith(CallerCredential(i), "Bearer ") THEN CallerCredential(i)
                     ELSE "Bearer " \o CallerCredential(i))

\* The reply of invocation i carries a non-success status and a body that was read.
ErrorReply(i) ==
    /\ reply[i] # Absent /\ reply[i][1].kind = "response"
    /\ ~(reply[i][1].status \in 200..299)
    /\ reply[i][1].body # Absent

SuccessReply(i) ==
    /\ reply[i] # Absent /\ reply[i][1].kind = "response"
    /\ reply[i][1].status \in 200..299
    /\ reply[i][1].body # Absent
    /\ JsonScan(reply[i][1].body[1]).ok

\* The upstream document and the returned text, each as written.
Upstream(i) == JsonScan(reply[i][1].body[1]).val

Printed(i) == JsonScan(Text(i)).val

\* Every member of the text stands on a line of its own behind two spaces;
\* the braces stand alone on the first and the last line.
TwoSpaceLayout(text, members) ==
    IF members = <<>> THEN text = "{}"
    ELSE /\ StartsWith(text, "{\n  \"")
         /\ SubSeq(text, Len(text) - 1, Len(text)) = "\n}"
         /\ \A k \in 1..Len(members) :
                Includes(text, "\n  \"" \o members[k][1] \o "\": " \o ToString(members[k][2])
                               \o (IF k < Len(members) THEN ",\n  \"" ELSE "\n}"))

\* C5, as stated: after a success reply with a well-formed JSON body the tool
\* returns one text block, the upstream value printed with two-space
\* indentation, no field added, removed or reordered.
C5_AsStated ==
    \A i \in Slots :
        (Returned(i) /\ SuccessReply(i)) =>
            /\ OneTextBlock(i)
            /\ JsonScan(Text(i)).ok
            /\ Printed(i) = Upstream(i)
            /\ Upstream(i).t = "obj" => TwoSpaceLayout(Text(i), Upstream(i).m)

FirstAt(members, name) ==
    CHOOSE x \in 1..Len(members) :
        members[x][1] = name /\ \A y \in 1..(x - 1) : members[y][1] # name

LastAt(members, name) ==
    CHOOSE x \in 1..Len(members) :
        members[x][1] = name /\ \A y \in (x + 1)..Len(members) : members[y][1] # name

\* Name a is printed before name b.
PrintedBefore(members, a, b) ==
    IF IsArrayIndex(a) /\ IsArrayIndex(b) THEN NatOf(a) < NatOf(b)
    ELSE IF IsArrayIndex(a) THEN TRUE
    ELSE IF IsArrayIndex(b) THEN FALSE
    ELSE FirstAt(members, a) < FirstAt(members, b)

\* C5, amended: the tool returns one text block, the value as JSON.parse
\* builds it printed with two-space indentation: every name of the upstream
\* object appears exactly once, with the value of its last occurrence; names
\* that are array indices come first, in ascending numeric order, and the
\* other names follow in the order of their first occurrence; no name is
\* added, and parsing the text yields what parsing the upstream body yields.
C5_PrettyPrinted ==
    \A i \in Slots :
        (Returned(i) /\ SuccessReply(i)) =>
            /\ OneTextBlock(i)
            /\ JsonScan(Text(i)).ok
            /\ JSONparse(Text(i)).val = JSONparse(reply[i][1].body[1]).val
            /\ Printed(i).t = Upstream(i).t
            /\ Upstream(i).t = "num" => Text(i) = ToString(Upstream(i).n)
            /\ Upstream(i).t = "obj" =>
                LET up  == Upstream(i).m
                    out == Printed(i).m
                IN  /\ \A k \in 1..Len(out) : \E x \in 1..Len(up) : up[x][1] = out[k][1]
                    /\ \A x \in 1..Len(up) : \E k \in 1..Len(out) : out[k][1] = up[x][1]
                    /\ \A k \in 1..Len(out) : out[k][2] = up[LastAt(up, out[k][1])][2]
                    /\ \A j, k \in 1..Len(out) :
                           j < k => out[j][1] # out[k][1] /\ PrintedBefore(up, out[j][1], out[k][1])
                    /\ TwoSpaceLayout(Text(i), out)

C5_Witness ==
    \E i \in Slots :
        /\ Returned(i) /\ SuccessReply(i)
        /\ reply[i][1].body = Some("{\"b\":1,\"10\":3,\"2\":4}")
        /\ Text(i) = "{\n  \"2\": 4,\n  \"10\": 3,\n  \"b\": 1\n}"

\* A decimal numeral: an optional "-", digits, and optionally "." and digits.
DotAt(s) == IF Includes(s, ".") THEN CHOOSE x \in 1..Len(s) : CharAt(s, x) = "." ELSE Len(s) + 1

Unsigned(s) == IF StartsWith(s, "-") THEN Tail(s) ELSE s

WholeDigits(s) == SubSeq(Unsigned(s), 1, DotAt(Unsigned(s)) - 1)

FracDigits(s) == SubSeq(Unsigned(s), DotAt(Unsigned(s)) + 1, Len(Unsigned(s)))

IsDecimal(s) ==
    /\ IsDigits(WholeDigits(s))
    /\ Includes(s, ".") => IsDigits(FracDigits(s)) /\ CharAt(s, Len(s)) # "0"
    /\ Len(WholeDigits(s)) > 1 => CharAt(WholeDigits(s), 1) # "0"
    /\ s # "-0"

RECURSIVE TenTo(_)
TenTo(k) == IF k = 0 THEN 1 ELSE 10 * TenTo(k - 1)

\* The numeral s denotes DecimalNum(s) / DecimalDen(s).
DecimalDen(s) == TenTo(Len(FracDigits(s)))

DecimalNum(s) ==
    (IF StartsWith(s, "-") THEN -1 ELSE 1)
    * (NatOf(WholeDigits(s)) * DecimalDen(s) + NatOf(FracDigits(s)))

\* C6: calculate returns one text block: "Error: Cannot divide by zero" for
\* divide with b = 0, whatever a is, and otherwise the numeral of a + b,
\* a - b, a * b or a / b; nothing is thrown.
C6_Calculate ==
    \A i \in Slots :
        (Returned(i) /\ In(i).tool = "calculate") =>
            LET a  == In(i).args.a
                b  == In(i).args.b
                op == In(i).args.operation
            IN  /\ OneTextBlock(i)
                /\ IF op = "divide" /\ b = 0 THEN Text(i) = "Error: Cannot divide by zero"
                   ELSE /\ IsDecimal(Text(i))
                        /\ op = "add" => DecimalNum(Text(i)) = (a + b) * DecimalDen(Text(i))
                        /\ op = "subtract" => DecimalNum(Text(i)) = (a - b) * DecimalDen(Text(i))
                        /\ op = "multiply" => DecimalNum(Text(i)) = (a * b) * DecimalDen(Text(i))
                        /\ op = "divide" => DecimalNum(Text(i)) * b = a * DecimalDen(Text(i))

C6_Witness ==
    \E i \in Slots :
        /\ Invoked(i) /\ Returned(i) /\ In(i).tool = "calculate"
        /\ In(i).args.operation = "divide" /\ In(i).args.b = 0 /\ In(i).args.a # 0
        /\ Text(i) = "Error: Cannot divide by zero"
\* The query string of a URL as its list of <<name, value>> pairs.
RECURSIVE SplitOn(_, _)
SplitOn(s, sep) ==
    IF ~Includes(s, sep) THEN <<s>>
    ELSE LET x == CHOOSE y \in 1..Len(s) :
                      CharAt(s, y) = sep /\ \A z \in 1..(y - 1) : CharAt(s, z) # sep
         IN  <<SubSeq(s, 1, x - 1)>> \o SplitOn(SubSeq(s, x + 1, Len(s)), sep)

QueryParams(url) ==
    LET pairs == SplitOn(SplitOn(url, "?")[2], "&")
    IN  [k \in 1..Len(pairs) |-> <<SplitOn(pairs[k], "=")[1], SplitOn(pairs[k], "=")[2]>>]

HasParam(q, name) == \E k \in 1..Len(q) : q[k][1] = name

ParamIs(q, name, value) ==
    /\ \E k \in 1..Len(q) : q[k] = <<name, value>>
    /\ Cardinality({k \in 1..Len(q) : q[k][1] = name}) = 1

\* The form encoding of the date ranges and statuses of the model.
Encoded(v) == IF v = "last week" THEN "last+week" ELSE v

\* dateRange, and limit or includeTax, stand in the query with the caller's
\* value or their default.
DefaultedParams(in, q) ==
    /\ ParamIs(q, "dateRange", IF in.args.date_range = Absent THEN "today"
                               ELSE Encoded(in.args.date_range[1]))
    /\ in.tool = "get_bestsellers" =>
           ParamIs(q, "limit", IF in.args.limit = Absent THEN "10" ELSE ToString(in.args.limit[1]))
    /\ in.tool = "get_revenue" =>
           ParamIs(q, "includeTax", IF in.args.include_tax = Absent THEN "true"
                                    ELSE IF in.args.include_tax[1] THEN "true" ELSE "false")

Reporting(i) == Invoked(i) /\ In(i).tool \in {"get_bestsellers", "get_revenue"} /\ sent[i] # <<>>

\* C8, as stated: the query of get_bestsellers and get_revenue carries status
\* if and only if the caller provided a status, with the value provided; the
\* other parameters are always there, defaulted when omitted.
C8_AsStated ==
    \A i \in Slots :
        Reporting(i) =>
            LET q == QueryParams(sent[i][1].url)
            IN  /\ HasParam(q, "status") <=> In(i).args.status # Absent
                /\ In(i).args.status # Absent => ParamIs(q, "status", Encoded(In(i).args.status[1]))
                /\ DefaultedParams(In(i), q)

\* C8, amended: the query carries status if and only if the caller provided a
\* status that is not the empty string, with the value provided; the other
\* parameters are always there, defaulted when omitted.
C8_StatusParam ==
    \A i \in Slots :
        Reporting(i) =>
            LET q == QueryParams(sent[i][1].url)
                given == In(i).args.status # Absent /\ In(i).args.status # Some("")
            IN  /\ HasParam(q, "status") <=> given
                /\ given => ParamIs(q, "status", Encoded(In(i).args.status[1]))
                /\ DefaultedParams(In(i), q)
                /\ Len(q) = IF given THEN 3 ELSE 2

C8_Witness ==
    \E i \in Slots :
        /\ Reporting(i) /\ In(i).tool = "get_bestsellers"
        /\ In(i).args = [date_range |-> Some("last week"), limit |-> Absent, status |-> Absent]
        /\ sent[i][1].url = "https://shop.test/rest/V1/mcpdata/bestsellers?dateRange=last+week&limit=10"

\* Every request handed to fetch is a GET without a body, and an invocation
\* hands over at most one.
GetOnly(i) ==
    /\ Len(sent[i]) <= 1
    /\ \A k \in 1..Len(sent[i]) : sent[i][k].method = "GET" /\ sent[i][k].body = Absent

\* The Forwarder attaches a body only to a call that is not a GET and has data.
BodyRule ==
    \A method \in {"GET", "POST"}, data \in {Absent, Some(JsonNum(1))} :
        RequestBody(data, method) # Absent <=> (method # "GET" /\ data # Absent)

\* C9, as stated: every outbound request is a GET without a body; an
\* invocation issues exactly one request when it is of a remote-backed tool
\* and its headers carry domain and authorization, and none otherwise.
C9_AsStated ==
    \A i \in Slots :
        Invoked(i) =>
            /\ GetOnly(i)
            /\ Len(sent[i]) = 1 <=> (Remote(i) /\ ~LacksHeaders(In(i).headers))

\* C9, amended: every outbound request is a GET without a body; an invocation
\* issues exactly one request when it is of a remote-backed tool, its headers
\* carry domain and authorization and its sku or ids argument holds no
\* unpaired surrogate, and none otherwise; the Forwarder attaches a body only
\* when the method is not GET and data is given.
C9_OneGetRequest ==
    /\ BodyRule
    /\ \A i \in Slots :
        /\ ~Invoked(i) => sent[i] = <<>>
        /\ Invoked(i) =>
            /\ GetOnly(i)
            /\ Len(sent[i]) = 1 <=>
                   (Remote(i) /\ ~LacksHeaders(In(i).headers) /\ ~Unencodable(In(i)))

C9_Witness ==
    \E i \in Slots :
        /\ Remote(i) /\ Returned(i) /\ ~LacksHeaders(In(i).headers)
        /\ Len(sent[i]) = 1 /\ sent[i][1].method = "GET" /\ sent[i][1].body = Absent

\* C7: with several invocations in flight, the request an invocation sends is
\* a function of its own arguments and headers, and the response it returns
\* is a function of those and of its own upstream reply: two invocations that
\* agree on them agree on request and response, whatever the others do.
C7_Independent ==
    \A i, j \in Slots :
        (Invoked(i) /\ Invoked(j) /\ input[i] = input[j]) =>
            /\ sent[i] = sent[j]
            /\ (Returned(i) /\ Returned(j) /\ reply[i] = reply[j]) => response[i] = response[j]

C7_Witness ==
    \E i, j \in Slots :
        /\ i # j /\ Remote(i) /\ input[i] = input[j]
        /\ Returned(i) /\ Returned(j) /\ reply[i] # Absent /\ reply[i] = reply[j]
        /\ response[i] = response[j]

Pending(i) == pc[i] \in {"fetching", "reading"}

\* C10: an invocation that sends no request returns without waiting; one that
\* sends a request returns only after its upstream call has settled; every
\* invocation whose upstream call settles returns, with one response; one
\* whose upstream call hangs stays pending forever, and keeps no other
\* invocation from returning.
C10_Completion ==
    /\ [](\A i \in Slots :
            /\ (Invoked(i) /\ sent[i] = <<>>) => (Returned(i) /\ reply[i] = Absent)
            /\ Pending(i) => response[i] = Absent
            /\ (sent[i] # <<>> /\ response[i] # Absent) => (reply[i] # Absent /\ ~hung[i])
            /\ Returned(i) => OneTextBlock(i)
            /\ hung[i] => Pending(i))
    /\ [][\A i \in Slots : hung[i] => (hung'[i] /\ pc'[i] = pc[i] /\ response'[i] = Absent)]_vars
    /\ \A i \in 1..MaxCalls : Pending(i) ~> (Returned(i) \/ hung[i])

C10_Witness ==
    \E i, j \in Slots :
        /\ hung[i] /\ Pending(i)
        /\ Returned(j) /\ sent[j] # <<>> /\ reply[j] # Absent
====
